---- MODULE Spec2Model ----
(***************************************************************************)
(* Timed media composition of BrainBinge-Video-Editor.                     *)
(*                                                                         *)
(*   TransitionEngine (src/modules/transitions.py): generate_segments,     *)
(*     build_xfade_filter_chain, build_audio_crossfade_chain.              *)
(*   VideoComposer (src/modules/composer.py): validate, process,           *)
(*     _build_video_filters, _build_audio_filters and their helpers.       *)
(*                                                                         *)
(* Times are integers in milliseconds (0.5 s = 500).  Gains are integers   *)
(* in percent (1.0 = 100).  Python's None is the string "None".            *)
(* A filter-graph label is a pair: "[v3]" is <<"v", 3>>, "[vout]" is       *)
(* <<"vout", 0>>, the raw input stream "[2:v]" is <<"in:v", 2>>.           *)
(***************************************************************************)
EXTENDS Integers, Sequences, FiniteSets, TLC

\* ------------------------------------------------------------------ bounds
\* Longest B-roll clip list handed to either entry point.
MaxClips == 2

\* Time stamps (ms) a clip may start or end at.  300 gives a leading avatar
\* segment shorter than a transition, 1254 a value that the two-decimal
\* offset formatting rounds, 5000..8500 a clip of exactly the full-frame cap
\* and a clip that ends after the shorter main video.
TimePoints == {0, 300, 1254, 5000, 8500}

\* Main-video durations (ms) returned by get_video_duration.
Durations == {5000, 10000}

\* Output resolutions process() is called with (kwargs video_width/height).
Resolutions == {<<1280, 720>>, <<420, 320>>, <<400, 300>>}

ClipTypes == {"pip", "fullframe"}

\* Files a clip's "path" may name, and the sets of them that may be present
\* on disk when process is called.
ClipPaths == {"broll.mp4"}
Disks == SUBSET ClipPaths

\* What the engine may leave at the output path when it exits zero, and when
\* it exits non-zero or is terminated.
ExitZeroOutputs == {"valid", "missing", "empty", "wrong_length"}
NonZeroOutputs == {"absent", "partial"}

\* The diagnostic text the engine wrote to stderr.
ffmpeg_stderr == "stderr text"

\* BRollFetcher instances on one cache directory; the first one alone, and
\* both.
Fetchers == {1, 2}
OneFetcher == {1}

\* RATE_LIMIT and RATE_WINDOW, scaled down (200 requests per 3600 s in
\* pexels_client.py:51-52) so that the limit is reached within MaxRequests.
RATE_LIMIT == 2
RATE_WINDOW == 3
\* Search requests sent, clear_cache calls made, and the latest time.
MaxRequests == 3
MaxClears == 1
MaxTime == 4
\* _download_file's default number of attempts.
retries == 3

\* Outcomes of the search request and of one download attempt.
SearchResponses == {"videos", "no_videos", "error", "timeout"}
AttemptOutcomes == {"ok", "no_response", "cut_empty", "cut_partial"}

\* What is found at the main video's path.
InputFiles == {"ok", "missing", "empty"}

\* The captions_path argument: None, or what is found at the path
\* ("not_ass": a non-empty file whose suffix is not .ass).
CaptionFiles == {"None", "ok", "missing", "empty", "not_ass"}

\* The header_text keyword: absent ("None") or a caller's text.
HeaderArgs == {"None", "custom header"}
brand_header == "BrainBinge Video"

\* Instants (ms) at which time-window predicates and gains are evaluated:
\* every time point and every midpoint between two of them.
ProbeTimes == {(a + b) \div 2 : a \in TimePoints, b \in TimePoints}

\* ------------------------------------------------------- program constants
default_duration == 500
max_broll_duration == 3500
fade_duration == 300
ducking_volume == 50
pip_width == 400
pip_height == 300
pip_padding == 10
default_video_width == 1280
default_video_height == 720
transition_pattern ==
    <<"slideright", "fade", "dissolve", "circleopen", "slideright", "zoomin">>

\* ------------------------------------------------------------------ inputs
\* A B-roll clip dict.  end_time > start_time: the plan loader drops every
\* row with end_sec <= start_sec (pexels_client.py:241).
Clips ==
    {c \in [path : ClipPaths, start_time : TimePoints, end_time : TimePoints,
            type : ClipTypes] :
        c.end_time > c.start_time}

RECURSIVE SeqsUpTo(_, _)
SeqsUpTo(S, n) ==
    IF n = 0 THEN {<<>>}
    ELSE LET shorter == SeqsUpTo(S, n - 1)
         IN  shorter \cup {Append(q, x) : q \in {r \in shorter : Len(r) = n - 1}, x \in S}

ClipLists == SeqsUpTo(Clips, MaxClips)

\* Clip dicts as a direct caller of process may pass them: process does not
\* look at "type" before the graph is built, so any string is accepted.
AnyTypeTimes == {0, 300, 8500}
AnyTypeClips ==
    {c \in [path : ClipPaths, start_time : AnyTypeTimes, end_time : AnyTypeTimes,
            type : ClipTypes \cup {"other"}] :
        c.end_time > c.start_time}
AnyTypeClipLists == SeqsUpTo(AnyTypeClips, MaxClips)

\* ------------------------------------------------------------------- state
VARIABLES
    pc,             \* position: "start", "te_segments", "te_filters", ...
    main_duration,  \* TransitionEngine: duration of the main video
    broll_clips,    \* the clip list of the current call
    segments,       \* result of generate_segments
    video_filter,   \* nodes of build_xfade_filter_chain
    audio_filter,   \* nodes of build_audio_crossfade_chain
    input_file,     \* VideoComposer: what is at input_path
    captions_file,  \* VideoComposer: captions_path (None or what is there)
    header_text,    \* VideoComposer: header_text of the call
    video_width,    \* VideoComposer: output width of the call
    video_height,   \* VideoComposer: output height of the call
    errors,         \* VideoComposer: the list validate returned
    video_chain,    \* VideoComposer: nodes of _build_video_filters, in order
    audio_chain,    \* VideoComposer: nodes of _build_audio_filters
    outcome,        \* how the call ended so far: "pending", "returned" or
                    \* the exception raised
    existing_files, \* the clip files present on disk
    ffmpeg_runs,    \* number of times the external engine was started
    engine_exit,    \* "none", or how the engine ended: "zero", "nonzero"
    output_file,    \* what is at output_path: "absent", "partial", "valid",
                    \* "missing", "empty", "wrong_length"
    message,        \* the parts of the raised exception's message, in order
    result,         \* <<>> or <<the returned ProcessorResult>>
    now,            \* BRollFetcher: time.time()
    rate_file,      \* "requests" of rate_limit.json in the cache directory
                    \* (a deleted file loads as the empty list)
    cache_file,     \* the cache file of the query: "absent", "empty",
                    \* "partial" or "complete"
    issued,         \* times of the search requests the API answered
    tracked,        \* number of completed _track_request calls
    clears,         \* number of clear_cache calls
    px_pc,          \* per fetcher: position in search_and_download
    px_loaded,      \* per fetcher: the state _track_request loaded
    px_response,    \* per fetcher: outcome of the search request
    px_attempts,    \* per fetcher: outcomes of the download attempts of
                    \* the current _download_file call, in order
    px_sleeps,      \* per fetcher: back-off sleeps of that call
    px_download,    \* per fetcher: "none", "running", "returned", "raised"
    px_returned     \* per fetcher: "nothing", "pending", "None" or "path"

te_vars == <<segments, video_filter, audio_filter>>
vc_vars == <<input_file, captions_file, header_text, video_width, video_height, errors, video_chain, audio_chain>>
run_vars == <<ffmpeg_runs, engine_exit, output_file, message, result>>
px_vars == <<now, rate_file, cache_file, issued, tracked, clears, px_pc,
             px_loaded, px_response, px_attempts, px_sleeps, px_download,
             px_returned>>
composer_vars == <<pc, main_duration, broll_clips, segments, video_filter,
                   audio_filter, input_file, captions_file, header_text,
                   video_width, video_height, errors, video_chain, audio_chain,
                   outcome, existing_files, ffmpeg_runs, engine_exit,
                   output_file, message, result>>
vars == <<pc, main_duration, broll_clips, segments, video_filter, audio_filter,
          input_file, captions_file, header_text, video_width, video_height,
          errors, video_chain, audio_chain, outcome, existing_files,
          ffmpeg_runs, engine_exit, output_file, message, result,
          now, rate_file, cache_file, issued, tracked, clears, px_pc,
          px_loaded, px_response, px_attempts, px_sleeps, px_download,
          px_returned>>

\* ------------------------------------------------------- generate_segments
\* sorted(broll_clips, key=start_time): stable insertion sort.
RECURSIVE InsertByStart(_, _)
InsertByStart(sortedSeq, c) ==
    IF sortedSeq = <<>> THEN <<c>>
    ELSE IF sortedSeq[Len(sortedSeq)].start_time <= c.start_time
         THEN Append(sortedSeq, c)
         ELSE Append(InsertByStart(SubSeq(sortedSeq, 1, Len(sortedSeq) - 1), c),
                     sortedSeq[Len(sortedSeq)])

RECURSIVE SortByStart(_)
SortByStart(clips) ==
    IF clips = <<>> THEN <<>>
    ELSE InsertByStart(SortByStart(SubSeq(clips, 1, Len(clips) - 1)), clips[Len(clips)])

_get_transition_type(index) ==
    transition_pattern[(index % Len(transition_pattern)) + 1]

\* The avatar segment emitted before clip number i (0-based) of the loop.
AvatarBefore(segs, current_time, broll_start, transition_idx, i) ==
    [type |-> "avatar",
     start |-> current_time,
     end |-> broll_start,
     duration |-> broll_start - current_time,
     transition_in |-> IF i > 0 THEN _get_transition_type(transition_idx) ELSE "None",
     transition_duration |-> default_duration,
     segment_index |-> Len(segs)]

BrollSegment(segs, broll, transition_idx) ==
    [type |-> "broll",
     start |-> 0,
     end |-> broll.end_time - broll.start_time,
     duration |-> broll.end_time - broll.start_time,
     transition_in |-> _get_transition_type(transition_idx),
     transition_duration |-> default_duration,
     segment_index |-> Len(segs)]

\* Variant: the final segment's duration is not reduced by the cursor.
FinalAvatar_NoSubtract(segs, current_time, D, transition_idx) ==
    [type |-> "avatar",
     start |-> current_time,
     end |-> D,
     duration |-> D,
     transition_in |-> _get_transition_type(transition_idx),
     transition_duration |-> default_duration,
     segment_index |-> Len(segs)]

FinalAvatar(segs, current_time, D, transition_idx) ==
    [type |-> "avatar",
     start |-> current_time,
     end |-> D,
     duration |-> D - current_time,
     transition_in |-> _get_transition_type(transition_idx),
     transition_duration |-> default_duration,
     segment_index |-> Len(segs)]

\* The for loop of generate_segments from clip i (1-based) on, then the tail.
RECURSIVE SegmentLoop(_, _, _, _, _, _)
SegmentLoop(sorted_broll, i, segs, current_time, transition_idx, D) ==
    IF i > Len(sorted_broll)
    THEN IF current_time < D
         THEN Append(segs, FinalAvatar(segs, current_time, D, transition_idx))
         ELSE segs
    ELSE LET broll  == sorted_broll[i]
             gap    == current_time < broll.start_time
             segs1  == IF gap
                       THEN Append(segs, AvatarBefore(segs, current_time,
                                        broll.start_time, transition_idx, i - 1))
                       ELSE segs
             idx1   == IF gap THEN transition_idx + 1 ELSE transition_idx
             segs2  == Append(segs1, BrollSegment(segs1, broll, idx1))
         IN  SegmentLoop(sorted_broll, i + 1, segs2, broll.end_time, idx1 + 1, D)

generate_segments(D, clips) ==
    SegmentLoop(SortByStart(clips), 1, <<>>, 0, 0, D)

\* ------------------------------------------------ build_xfade_filter_chain
RECURSIVE SumDurations(_, _)
\* sum(s['duration'] for s in segments[:i])
SumDurations(segs, i) ==
    IF i = 0 THEN 0 ELSE SumDurations(segs, i - 1) + segs[i].duration

\* f"{offset:.2f}": a value in ms printed with two decimals of a second,
\* i.e. rounded to the nearest 10 ms (the result is again in ms).
Format2f(x) == ((x + 5) \div 10) * 10

VOUT == <<"vout", 0>>
AOUT == <<"aout", 0>>

ScaleNode(i, w, h) ==
    [ins |-> << <<"in:v", i>> >>, op |-> "scale,setsar", out |-> <<"v", i>>,
     transition |-> "None", duration |-> 0, offset |-> 0, width |-> w, height |-> h]

RECURSIVE ScaleNodes(_, _, _)
\* for i, seg in enumerate(segments): the nodes for indices 0..n-1
ScaleNodes(n, w, h) ==
    IF n = 0 THEN <<>> ELSE Append(ScaleNodes(n - 1, w, h), ScaleNode(n - 1, w, h))

\* Variant: only the preceding segment's duration, not the running sum.
XfadeOffset_PrevOnly(segs, i) == segs[i].duration - segs[i + 1].transition_duration

\* offset of the blend into segment i (0-based, i >= 1), before formatting
XfadeOffset(segs, i) == SumDurations(segs, i) - segs[i + 1].transition_duration

XfadeNextLabel(segs, i) == IF i < Len(segs) - 1 THEN <<"v", i>> ELSE VOUT

XfadeNode(segs, i, current_label, w, h) ==
    [ins |-> <<current_label, <<"v", i>>>>, op |-> "xfade",
     out |-> XfadeNextLabel(segs, i),
     transition |-> segs[i + 1].transition_in,
     duration |-> segs[i + 1].transition_duration,
     offset |-> Format2f(XfadeOffset(segs, i)), width |-> w, height |-> h]

RECURSIVE XfadeLoop(_, _, _, _, _, _)
\* for i in range(1, len(segments)), i 0-based
XfadeLoop(segs, i, parts, current_label, w, h) ==
    IF i >= Len(segs) THEN parts
    ELSE IF segs[i + 1].transition_in # "None"
         THEN XfadeLoop(segs, i + 1,
                        Append(parts, XfadeNode(segs, i, current_label, w, h)),
                        XfadeNextLabel(segs, i), w, h)
         ELSE XfadeLoop(segs, i + 1, parts, current_label, w, h)

build_xfade_filter_chain(segs, w, h) ==
    XfadeLoop(segs, 1, ScaleNodes(Len(segs), w, h), <<"v", 0>>, w, h)

\* --------------------------------------------- build_audio_crossfade_chain
audio_crossfade == TRUE

AcrossfadeNextLabel(segs, i) == IF i < Len(segs) - 1 THEN <<"a", i>> ELSE AOUT

AcopyNode(label) ==
    [ins |-> <<label>>, op |-> "acopy", out |-> AOUT, duration |-> 0]

RECURSIVE AcrossfadeLoop(_, _, _, _)
AcrossfadeLoop(segs, i, parts, current_label) ==
    IF i >= Len(segs) THEN parts
    ELSE AcrossfadeLoop(segs, i + 1,
            Append(parts, [ins |-> <<current_label, <<"in:a", i>>>>,
                           op |-> "acrossfade",
                           out |-> AcrossfadeNextLabel(segs, i),
                           duration |-> segs[i + 1].transition_duration]),
            AcrossfadeNextLabel(segs, i))

\* acrossfade takes no offset: it fades over the last d of its first input.
\* Its first input for pair i (0-based, i >= 1) is the audio joined so far,
\* whose length is the summed duration of segments 0..i-1 less the i-1
\* earlier cross-fades; the cross-fade begins d before that stream ends.
RECURSIVE AccumulatedAudio(_, _)
AccumulatedAudio(segs, i) ==
    IF i = 1 THEN segs[1].duration
    ELSE AccumulatedAudio(segs, i - 1) + segs[i].duration - segs[i].transition_duration

AcrossfadeStart(segs, i) == AccumulatedAudio(segs, i) - segs[i + 1].transition_duration

build_audio_crossfade_chain(segs) ==
    IF ~audio_crossfade THEN <<AcopyNode(<<"in:a", 0>>)>>
    ELSE LET parts == AcrossfadeLoop(segs, 1, <<>>, <<"in:a", 0>>)
         IN  IF parts # <<>> THEN parts ELSE <<AcopyNode(<<"in:a", 0>>)>>

\* ------------------------------------------------- VideoComposer.validate
\* The checks of one clip of kwargs["broll_clips"] (loop body, 543-552).
ClipErrors(clip, files) ==
    IF "path" \notin DOMAIN clip
    THEN <<"B-roll clip missing 'path' field">>
    ELSE (IF clip.path \notin files
          THEN <<"B-roll clip not found">> ELSE <<>>)
         \o (IF "start_time" \notin DOMAIN clip \/ "end_time" \notin DOMAIN clip
             THEN <<"B-roll clip missing timing fields">> ELSE <<>>)

RECURSIVE AllClipErrors(_, _)
AllClipErrors(clips, files) ==
    IF clips = <<>> THEN <<>>
    ELSE AllClipErrors(SubSeq(clips, 1, Len(clips) - 1), files)
         \o ClipErrors(clips[Len(clips)], files)

\* validate(input_path, captions_path, **kwargs); kw_broll_clips is
\* kwargs.get("broll_clips", []), files the clip files present on disk.
validate(input, captions, kw_broll_clips, files) ==
    (IF input = "missing" THEN <<"Main video not found">>
     ELSE IF input = "empty" THEN <<"Main video file is empty">>
     ELSE <<>>)
    \o (IF captions = "None" THEN <<>>
        ELSE IF captions = "missing" THEN <<"Captions file not found">>
        ELSE IF captions = "empty" THEN <<"Captions file is empty">>
        ELSE IF captions = "not_ass" THEN <<"Captions must be ASS format">>
        ELSE <<>>)
    \o AllClipErrors(kw_broll_clips, files)

\* Variant: only the first collected error is reported.
ValidationMessage_FirstOnly(errs) == <<"Validation failed: ", errs[1]>>

\* f"Validation failed: {'; '.join(errors)}"
ValidationMessage(errs) == <<"Validation failed: ">> \o errs

\* str(e) of ffmpeg.Error: the library's fixed text; stderr is an attribute
\* of the exception and is only logged (composer.py:197).
ffmpeg_error_str == "ffmpeg error (see stderr output for detail)"

\* The metadata of the ProcessorResult that process returns (182-192).
ComposerResult(w, h, header, captions, clips) ==
    [success |-> TRUE,
     metadata |-> [video_resolution |-> <<w, h>>,
                   header_text |-> header,
                   captions_enabled |-> captions # "None",
                   broll_count |-> Len(clips)]]

\* The ProcessorResult of TransitionEngine.process (425-433).
TransitionResult(segs) ==
    [success |-> TRUE,
     metadata |-> [segment_count |-> Len(segs), transition_count |-> Len(segs) - 1]]

\* -------------------------------------------------- _build_video_filters
\* ffmpeg's between(t, a, b): 1 when a <= t <= b.
between(t, a, b) == a <= t /\ t <= b

\* A position expression: <<"main_w-", k>> is 'main_w-k' (main_h for y),
\* <<"abs", k>> the number k.
EvalPos(expr, main_dim) == IF expr[1] = "abs" THEN expr[2] ELSE main_dim - expr[2]

\* Variant: the drawtext node is created without the caller's text.
_add_header_overlay_NoText(header) ==
    [op |-> "drawtext", text |-> "None", enable_lt |-> 7000]

_add_header_overlay(header) ==
    [op |-> "drawtext", text |-> header, enable_lt |-> 7000]

\* Variant: the anchor leaves no padding to the right and bottom edges.
_add_broll_pip_NoPadding(clip) ==
    [op |-> "overlay", kind |-> "pip",
     x |-> <<"main_w-", pip_width>>,
     y |-> <<"main_h-", pip_height>>,
     enable_start |-> clip.start_time,
     enable_end |-> clip.end_time,
     broll |-> [path |-> clip.path, trim |-> -1,
                scale_w |-> pip_width, scale_h |-> pip_height,
                fade_in_start |-> clip.start_time,
                fade_out_start |-> clip.end_time - fade_duration,
                fade_d |-> fade_duration, setpts |-> 0]]

\* _add_broll_pip: scale, fade in at start, fade out at end - fade_duration,
\* overlay at the bottom-right corner while between(t, start, end).
_add_broll_pip(clip) ==
    [op |-> "overlay", kind |-> "pip",
     x |-> <<"main_w-", pip_width + pip_padding>>,
     y |-> <<"main_h-", pip_height + pip_padding>>,
     enable_start |-> clip.start_time,
     enable_end |-> clip.end_time,
     broll |-> [path |-> clip.path, trim |-> -1,
                scale_w |-> pip_width, scale_h |-> pip_height,
                fade_in_start |-> clip.start_time,
                fade_out_start |-> clip.end_time - fade_duration,
                fade_d |-> fade_duration, setpts |-> 0]]

\* Lines 452-458: the duration and end after the maximum is enforced.
FullframeDuration(start, end) ==
    IF end - start > max_broll_duration THEN max_broll_duration ELSE end - start

\* Variant: the end is not moved when the duration is capped.
FullframeEnd_Uncapped(start, end) == end

FullframeEnd(start, end) ==
    IF end - start > max_broll_duration THEN start + max_broll_duration ELSE end

\* _add_broll_fullframe: input trimmed to the duration, scaled to the frame,
\* faded at its own boundaries, shifted by setpts to start, overlaid at 0,0.
_add_broll_fullframe(clip, w, h) ==
    LET start    == clip.start_time
        duration == FullframeDuration(clip.start_time, clip.end_time)
        end      == FullframeEnd(clip.start_time, clip.end_time)
    IN  [op |-> "overlay", kind |-> "fullframe",
         x |-> <<"abs", 0>>,
         y |-> <<"abs", 0>>,
         enable_start |-> start,
         enable_end |-> end,
         broll |-> [path |-> clip.path, trim |-> duration,
                    scale_w |-> w, scale_h |-> h,
                    fade_in_start |-> 0,
                    fade_out_start |-> duration - fade_duration,
                    fade_d |-> fade_duration, setpts |-> start]]

RECURSIVE BrollOverlays(_, _, _)
\* Step 3: one overlay per clip of type "pip" or "fullframe", in list order.
BrollOverlays(clips, w, h) ==
    IF clips = <<>> THEN <<>>
    ELSE LET clip == clips[Len(clips)]
             rest == BrollOverlays(SubSeq(clips, 1, Len(clips) - 1), w, h)
         IN  IF clip.type = "pip" THEN Append(rest, _add_broll_pip(clip))
             ELSE IF clip.type = "fullframe"
                  THEN Append(rest, _add_broll_fullframe(clip, w, h))
                  ELSE rest

\* _burn_captions: one subtitles filter on the caption file.
_burn_captions(captions) == [op |-> "subtitles", filename |-> captions]

\* Variant: the order of the class docstring, captions burned before B-roll.
_build_video_filters_CaptionsFirst(captions, header, clips, w, h) ==
    <<[op |-> "scale", width |-> w, height |-> h]>>
    \o <<_add_header_overlay(header)>>
    \o (IF captions # "None" /\ captions # "missing"
        THEN <<_burn_captions(captions)>> ELSE <<>>)
    \o BrollOverlays(clips, w, h)

_build_video_filters(captions, header, clips, w, h) ==
    <<[op |-> "scale", width |-> w, height |-> h]>>
    \o <<_add_header_overlay(header)>>
    \o BrollOverlays(clips, w, h)
    \o (IF captions # "None" /\ captions # "missing"
        THEN <<_burn_captions(captions)>> ELSE <<>>)

\* -------------------------------------------------- _build_audio_filters
RECURSIVE ClipIntervals(_)
\* intervals = [(clip["start_time"], clip["end_time"]) for clip in broll_clips]
ClipIntervals(clips) ==
    IF clips = <<>> THEN <<>>
    ELSE Append(ClipIntervals(SubSeq(clips, 1, Len(clips) - 1)),
                <<clips[Len(clips)].start_time, clips[Len(clips)].end_time>>)

\* _apply_audio_ducking: one term if(between(t,start,end),ducking,1.0) per
\* interval, joined by '*', as the expression of one volume filter.
_apply_audio_ducking(intervals) ==
    IF intervals = <<>> THEN <<>>
    ELSE <<[op |-> "volume",
            terms |-> [k \in 1..Len(intervals) |->
                         [start |-> intervals[k][1], end |-> intervals[k][2],
                          then |-> ducking_volume, else |-> 100]]]>>

_build_audio_filters(clips) ==
    IF clips = <<>> THEN <<>> ELSE _apply_audio_ducking(ClipIntervals(clips))

\* The value of one term at time t, in percent.
TermValue(term, t) == IF between(t, term.start, term.end) THEN term.then ELSE term.else

RECURSIVE GainProduct(_, _, _)
\* The product of the first k terms at time t, in units of 100^-k.
GainProduct(terms, k, t) ==
    IF k = 0 THEN 1 ELSE GainProduct(terms, k - 1, t) * TermValue(terms[k], t)

RECURSIVE Pow100(_)
Pow100(k) == IF k = 0 THEN 1 ELSE 100 * Pow100(k - 1)

\* The gain at time t equals p percent.
GainIs(terms, t, p) ==
    GainProduct(terms, Len(terms), t) * 100 = p * Pow100(Len(terms))

\* ---------------------------------------------------------------- actions
Init ==
    /\ pc = "start"
    /\ main_duration = 0
    /\ broll_clips = <<>>
    /\ segments = <<>>
    /\ video_filter = <<>>
    /\ audio_filter = <<>>
    /\ input_file = "ok"
    /\ captions_file = "None"
    /\ header_text = brand_header
    /\ video_width = default_video_width
    /\ video_height = default_video_height
    /\ errors = <<>>
    /\ video_chain = <<>>
    /\ audio_chain = <<>>
    /\ outcome = "pending"
    /\ existing_files = ClipPaths
    /\ ffmpeg_runs = 0
    /\ engine_exit = "none"
    /\ output_file = "absent"
    /\ message = <<>>
    /\ result = <<>>
    /\ now = 0
    /\ rate_file = <<>>
    /\ cache_file = "absent"
    /\ issued = <<>>
    /\ tracked = 0
    /\ clears = 0
    /\ px_pc = [f \in Fetchers |-> "idle"]
    /\ px_loaded = [f \in Fetchers |-> <<>>]
    /\ px_response = [f \in Fetchers |-> "none"]
    /\ px_attempts = [f \in Fetchers |-> <<>>]
    /\ px_sleeps = [f \in Fetchers |-> 0]
    /\ px_download = [f \in Fetchers |-> "none"]
    /\ px_returned = [f \in Fetchers |-> "nothing"]

\* TransitionEngine.process up to the segment plan: probe the duration,
\* generate the segments.  generate_segments has no failure path.
TE_generate_segments ==
    /\ pc = "start"
    /\ \E D \in Durations, clips \in ClipLists :
        /\ main_duration' = D
        /\ broll_clips' = clips
        /\ segments' = generate_segments(D, clips)
    /\ pc' = "te_segments"
    /\ UNCHANGED <<video_filter, audio_filter, outcome, existing_files>>
    /\ UNCHANGED vc_vars
    /\ UNCHANGED run_vars
    /\ UNCHANGED px_vars

\* compose_segments_with_transitions, lines 297-303: both filter chains are
\* built from the segment plan and joined into one filter_complex.
TE_build_filter_chains ==
    /\ pc = "te_segments"
    /\ video_filter' = build_xfade_filter_chain(segments, default_video_width,
                                                default_video_height)
    /\ audio_filter' = build_audio_crossfade_chain(segments)
    /\ pc' = "te_filters"
    /\ UNCHANGED <<main_duration, broll_clips, segments, outcome, existing_files>>
    /\ UNCHANGED vc_vars
    /\ UNCHANGED run_vars
    /\ UNCHANGED px_vars

\* The engine can only exit zero on a graph that defines both mapped output
\* labels ('-map [vout]', '-map [aout]', lines 325-326).
MappedLabelsDefined ==
    /\ \E k \in DOMAIN video_filter : video_filter[k].out = VOUT
    /\ \E k \in DOMAIN audio_filter : audio_filter[k].out = AOUT

\* compose_segments_with_transitions, lines 338-349, and the return of
\* process: subprocess.run ended with return code 0.  Nothing looks at the
\* output file.
TE_run_exit_zero ==
    /\ pc = "te_filters"
    /\ MappedLabelsDefined
    /\ \E out \in ExitZeroOutputs : output_file' = out
    /\ ffmpeg_runs' = ffmpeg_runs + 1
    /\ engine_exit' = "zero"
    /\ outcome' = "returned"
    /\ result' = <<TransitionResult(segments)>>
    /\ pc' = "te_returned"
    /\ UNCHANGED <<main_duration, broll_clips, existing_files, message>>
    /\ UNCHANGED te_vars
    /\ UNCHANGED vc_vars
    /\ UNCHANGED px_vars

\* Lines 346-347 and 351-352, 435-436: a non-zero return code (an engine
\* error or a terminated engine) raises TransitionError with stderr.
TE_run_nonzero ==
    /\ pc = "te_filters"
    /\ \E out \in NonZeroOutputs : output_file' = out
    /\ ffmpeg_runs' = ffmpeg_runs + 1
    /\ engine_exit' = "nonzero"
    /\ outcome' = "TransitionError"
    /\ message' = <<"FFmpeg failed: ", ffmpeg_stderr>>
    /\ pc' = "te_raised"
    /\ UNCHANGED <<main_duration, broll_clips, existing_files, result>>
    /\ UNCHANGED te_vars
    /\ UNCHANGED vc_vars
    /\ UNCHANGED px_vars

\* Lines 308 and 353-355: output_path.parent.mkdir raises (OSError); the
\* engine is not started.
TE_mkdir_fails ==
    /\ pc = "te_filters"
    /\ outcome' = "TransitionError"
    /\ message' = <<"Transition composition failed: ", "OSError">>
    /\ pc' = "te_raised"
    /\ UNCHANGED <<main_duration, broll_clips, existing_files, ffmpeg_runs,
                   engine_exit, output_file, result>>
    /\ UNCHANGED te_vars
    /\ UNCHANGED vc_vars
    /\ UNCHANGED px_vars

\* VideoComposer.process, lines 150-164: the call's arguments are bound and
\* validate runs; broll_clips is a named parameter of process, so it is not
\* in the **kwargs that validate receives.  The main video's duration is a
\* fact of the input file; the composer never reads it.
VC_process_from(lists) ==
    /\ \E inp \in InputFiles, cap \in CaptionFiles, hdr \in HeaderArgs,
          clips \in lists, res \in Resolutions, D \in Durations,
          files \in Disks :
        /\ input_file' = inp
        /\ existing_files' = files
        /\ captions_file' = cap
        /\ header_text' = (IF hdr = "None" THEN brand_header ELSE hdr)
        /\ broll_clips' = clips
        /\ video_width' = res[1]
        /\ video_height' = res[2]
        /\ main_duration' = D
        /\ errors' = validate(inp, cap, <<>>, files)
    /\ IF errors' # <<>>
       THEN /\ pc' = "vc_raised"
            /\ outcome' = "CompositionError"
            /\ message' = ValidationMessage(errors')
       ELSE /\ pc' = "vc_validated"
            /\ outcome' = "pending"
            /\ message' = message
    /\ UNCHANGED <<video_chain, audio_chain, ffmpeg_runs, engine_exit,
                   output_file, result>>
    /\ UNCHANGED te_vars
    /\ UNCHANGED px_vars

\* process called by the pipeline, with the clips of a loaded plan.
VC_process_validate ==
    /\ pc = "start"
    /\ VC_process_from(ClipLists)

\* process called directly, with clips of any type string.
VC_process_any_type ==
    /\ pc = "start"
    /\ VC_process_from(AnyTypeClipLists)

\* _compose_video, lines 225-242: the video chain and the audio chain.
VC_compose_video_build ==
    /\ pc = "vc_validated"
    /\ video_chain' = _build_video_filters(captions_file, header_text,
                                            broll_clips, video_width, video_height)
    /\ audio_chain' = _build_audio_filters(broll_clips)
    /\ pc' = "vc_built"
    /\ UNCHANGED <<main_duration, broll_clips, input_file, captions_file,
                   header_text, video_width, video_height, errors, outcome,
                   existing_files>>
    /\ UNCHANGED te_vars
    /\ UNCHANGED run_vars
    /\ UNCHANGED px_vars

\* Every file the graph reads is on disk; the engine cannot exit zero
\* otherwise.
InputsPresent ==
    /\ input_file = "ok"
    /\ \A k \in 1..Len(broll_clips) : broll_clips[k].path \in existing_files

\* _compose_video line 260 and process lines 178-192: ffmpeg.run returned
\* (exit code 0) and process returns success.  Nothing looks at the output
\* file.
VC_run_exit_zero ==
    /\ pc = "vc_built"
    /\ InputsPresent
    /\ \E out \in ExitZeroOutputs : output_file' = out
    /\ ffmpeg_runs' = ffmpeg_runs + 1
    /\ engine_exit' = "zero"
    /\ outcome' = "returned"
    /\ result' = <<ComposerResult(video_width, video_height, header_text,
                                   captions_file, broll_clips)>>
    /\ pc' = "vc_returned"
    /\ UNCHANGED <<main_duration, broll_clips, existing_files, message>>
    /\ UNCHANGED te_vars
    /\ UNCHANGED vc_vars
    /\ UNCHANGED px_vars

\* Variant: a failed run is followed by one more attempt inside the call.
VC_run_nonzero_Retried ==
    /\ pc = "vc_built"
    /\ \E out \in NonZeroOutputs :
        /\ ~InputsPresent => out = "absent"
        /\ output_file' = out
    /\ ffmpeg_runs' = ffmpeg_runs + 2
    /\ engine_exit' = "nonzero"
    /\ outcome' = "CompositionError"
    /\ message' = <<"FFmpeg composition failed: ", ffmpeg_error_str>>
    /\ pc' = "vc_raised"
    /\ UNCHANGED <<main_duration, broll_clips, existing_files, result>>
    /\ UNCHANGED te_vars
    /\ UNCHANGED vc_vars
    /\ UNCHANGED px_vars

\* Line 260 and lines 196-198: the engine exits non-zero (an engine error
\* or a terminated engine), ffmpeg.run raises ffmpeg.Error, and process
\* raises CompositionError with str(e).  A missing input makes the engine
\* fail before it writes anything.
VC_run_nonzero ==
    /\ pc = "vc_built"
    /\ \E out \in NonZeroOutputs :
        /\ ~InputsPresent => out = "absent"
        /\ output_file' = out
    /\ ffmpeg_runs' = ffmpeg_runs + 1
    /\ engine_exit' = "nonzero"
    /\ outcome' = "CompositionError"
    /\ message' = <<"FFmpeg composition failed: ", ffmpeg_error_str>>
    /\ pc' = "vc_raised"
    /\ UNCHANGED <<main_duration, broll_clips, existing_files, result>>
    /\ UNCHANGED te_vars
    /\ UNCHANGED vc_vars
    /\ UNCHANGED px_vars

\* Variant: the exception of mkdir leaves process as it is, not wrapped.
VC_mkdir_fails_Unwrapped ==
    /\ pc = "vc_built"
    /\ outcome' = "OSError"
    /\ message' = <<"OSError">>
    /\ pc' = "vc_raised"
    /\ UNCHANGED <<main_duration, broll_clips, existing_files, ffmpeg_runs,
                   engine_exit, output_file, result>>
    /\ UNCHANGED te_vars
    /\ UNCHANGED vc_vars
    /\ UNCHANGED px_vars

\* Line 245 and lines 199-201: output_path.parent.mkdir raises (OSError);
\* the engine is not started.
VC_mkdir_fails ==
    /\ pc = "vc_built"
    /\ outcome' = "CompositionError"
    /\ message' = <<"Video composition failed: ", "OSError">>
    /\ pc' = "vc_raised"
    /\ UNCHANGED <<main_duration, broll_clips, existing_files, ffmpeg_runs,
                   engine_exit, output_file, result>>
    /\ UNCHANGED te_vars
    /\ UNCHANGED vc_vars
    /\ UNCHANGED px_vars

Next ==
    \/ TE_generate_segments
    \/ TE_build_filter_chains
    \/ VC_process_validate
    \/ VC_compose_video_build
    \/ TE_run_exit_zero
    \/ TE_run_nonzero
    \/ TE_mkdir_fails
    \/ VC_run_exit_zero
    \/ VC_run_nonzero
    \/ VC_mkdir_fails

Spec == Init /\ [][Next]_vars

\* VideoComposer.process alone, called with clips of any type string.
NextAnyType ==
    \/ VC_process_any_type
    \/ VC_compose_video_build
    \/ VC_run_exit_zero
    \/ VC_run_nonzero
    \/ VC_mkdir_fails

SpecAnyType == Init /\ [][NextAnyType]_vars

\* ------------------------------------------------------------ BRollFetcher
\* [t for t in state["requests"] if t > cutoff], cutoff = time.time() - RATE_WINDOW
RecentRequests(requests, t) ==
    SelectSeq(requests, LAMBDA r : r > t - RATE_WINDOW)

\* min(recent_requests)
Oldest(requests) ==
    CHOOSE m \in {requests[i] : i \in 1..Len(requests)} :
        \A i \in 1..Len(requests) : m <= requests[i]

\* _rate_limit_check: the time at which it returns when entered at time t.
\* With RATE_LIMIT recent requests it sleeps wait_time + 1, where wait_time
\* is (oldest + RATE_WINDOW) - time.time(), if that is positive.
TimeAfterRateLimitCheck(requests, t) ==
    LET recent == RecentRequests(requests, t)
    IN  IF Len(recent) >= RATE_LIMIT
        THEN LET wait_time == (Oldest(recent) + RATE_WINDOW) - t
             IN  IF wait_time > 0 THEN t + wait_time + 1 ELSE t
        ELSE t

\* _cache_lookup: the path is returned when the file exists and its size
\* is greater than 0.
CacheHit(file) == file \in {"partial", "complete"}

\* What a download attempt leaves at output_path: open(output_path, 'wb')
\* truncates, the chunks are written as they arrive.
FileAfterAttempt(file, out) ==
    CASE out = "ok"          -> "complete"
      [] out = "no_response" -> file
      [] out = "cut_empty"   -> "empty"
      [] out = "cut_partial" -> "partial"

\* Variant: the last failed attempt is the one before the last.
MayRetry_OneShort(attempt) == attempt < retries - 2

\* "if attempt < retries - 1", attempt counted from 0
MayRetry(attempt) == attempt < retries - 1

\* search_and_download, lines 168-174: a new call starts with the cache
\* lookup; a hit returns the path, a miss goes on to the rate-limit check.
PX_search_and_download(f) ==
    /\ px_pc[f] = "idle"
    /\ Len(issued) < MaxRequests
    /\ px_response' = [px_response EXCEPT ![f] = "none"]
    /\ px_attempts' = [px_attempts EXCEPT ![f] = <<>>]
    /\ px_sleeps' = [px_sleeps EXCEPT ![f] = 0]
    /\ px_download' = [px_download EXCEPT ![f] = "none"]
    /\ IF CacheHit(cache_file)
       THEN /\ px_returned' = [px_returned EXCEPT ![f] = "path"]
            /\ px_pc' = px_pc
       ELSE /\ px_returned' = [px_returned EXCEPT ![f] = "pending"]
            /\ px_pc' = [px_pc EXCEPT ![f] = "rate_limit_check"]
    /\ UNCHANGED <<now, rate_file, cache_file, issued, tracked, clears, px_loaded>>
    /\ UNCHANGED composer_vars

\* _rate_limit_check, lines 472-495: loads the state and sleeps if the
\* limit is reached.
PX_rate_limit_check(f) ==
    /\ px_pc[f] = "rate_limit_check"
    /\ TimeAfterRateLimitCheck(rate_file, now) <= MaxTime
    /\ now' = TimeAfterRateLimitCheck(rate_file, now)
    /\ px_pc' = [px_pc EXCEPT ![f] = "search"]
    /\ UNCHANGED <<rate_file, cache_file, issued, tracked, clears, px_loaded,
                   px_response, px_attempts, px_sleeps, px_download, px_returned>>
    /\ UNCHANGED composer_vars

\* _search_videos, line 271: requests.get sends the search request.  When
\* it raises (timeout) _track_request is skipped and search_and_download
\* returns None (lines 191-193); such a request is not counted as issued,
\* since it need not have reached the API.
PX_search_request(f) ==
    /\ px_pc[f] = "search"
    /\ \E resp \in SearchResponses :
        /\ issued' = (IF resp = "timeout" THEN issued ELSE Append(issued, now))
        /\ px_response' = [px_response EXCEPT ![f] = resp]
        /\ IF resp = "timeout"
           THEN /\ px_pc' = [px_pc EXCEPT ![f] = "idle"]
                /\ px_returned' = [px_returned EXCEPT ![f] = "None"]
           ELSE /\ px_pc' = [px_pc EXCEPT ![f] = "track_load"]
                /\ px_returned' = px_returned
    /\ UNCHANGED <<now, rate_file, cache_file, tracked, clears, px_loaded,
                   px_attempts, px_sleeps, px_download>>
    /\ UNCHANGED composer_vars

\* _track_request, line 463: state = self._load_rate_limit_state()
PX_track_load(f) ==
    /\ px_pc[f] = "track_load"
    /\ px_loaded' = [px_loaded EXCEPT ![f] = rate_file]
    /\ px_pc' = [px_pc EXCEPT ![f] = "track_save"]
    /\ UNCHANGED <<now, rate_file, cache_file, issued, tracked, clears,
                   px_response, px_attempts, px_sleeps, px_download, px_returned>>
    /\ UNCHANGED composer_vars

\* _track_request, lines 464-470: append, drop the old entries, save; then
\* _search_videos returns or raises on the status (276-281) and
\* search_and_download returns None without a suitable video (178-187).
PX_track_save(f) ==
    /\ px_pc[f] = "track_save"
    /\ rate_file' = RecentRequests(Append(px_loaded[f], now), now)
    /\ tracked' = tracked + 1
    /\ IF px_response[f] = "videos"
       THEN /\ px_pc' = [px_pc EXCEPT ![f] = "download"]
            /\ px_download' = [px_download EXCEPT ![f] = "running"]
            /\ px_returned' = px_returned
       ELSE /\ px_pc' = [px_pc EXCEPT ![f] = "idle"]
            /\ px_download' = px_download
            /\ px_returned' = [px_returned EXCEPT ![f] = "None"]
    /\ UNCHANGED <<now, cache_file, issued, clears, px_loaded, px_response,
                   px_attempts, px_sleeps>>
    /\ UNCHANGED composer_vars

\* _download_file, lines 374-395: one pass of the loop.  A successful
\* attempt returns, search_and_download saves the metadata and returns the
\* path; a failed one sleeps 2 ** attempt and goes on, or raises
\* PexelsAPIError, which search_and_download turns into None.
PX_download_attempt(f) ==
    /\ px_pc[f] = "download"
    /\ Len(px_attempts[f]) < retries
    /\ \E out \in AttemptOutcomes :
        LET attempt == Len(px_attempts[f])
        IN  /\ cache_file' = FileAfterAttempt(cache_file, out)
            /\ px_attempts' = [px_attempts EXCEPT ![f] =
                                  Append(@, IF out = "ok" THEN "ok" ELSE "failed")]
            /\ IF out = "ok"
               THEN /\ px_download' = [px_download EXCEPT ![f] = "returned"]
                    /\ px_returned' = [px_returned EXCEPT ![f] = "path"]
                    /\ px_pc' = [px_pc EXCEPT ![f] = "idle"]
                    /\ UNCHANGED <<now, px_sleeps>>
               ELSE IF MayRetry(attempt)
                    THEN /\ now + 2 ^ attempt <= MaxTime
                         /\ now' = now + 2 ^ attempt
                         /\ px_sleeps' = [px_sleeps EXCEPT ![f] = @ + 1]
                         /\ UNCHANGED <<px_download, px_returned, px_pc>>
                    ELSE /\ px_download' = [px_download EXCEPT ![f] = "raised"]
                         /\ px_returned' = [px_returned EXCEPT ![f] = "None"]
                         /\ px_pc' = [px_pc EXCEPT ![f] = "idle"]
                         /\ UNCHANGED <<now, px_sleeps>>
    /\ UNCHANGED <<rate_file, issued, tracked, clears, px_loaded, px_response>>
    /\ UNCHANGED composer_vars

\* clear_cache, lines 510-516: every file of the cache directory is
\* unlinked, rate_limit.json among them.
PX_clear_cache(f) ==
    /\ px_pc[f] = "idle"
    /\ clears < MaxClears
    /\ clears' = clears + 1
    /\ cache_file' = "absent"
    /\ rate_file' = <<>>
    /\ UNCHANGED <<now, issued, tracked, px_pc, px_loaded, px_response,
                   px_attempts, px_sleeps, px_download, px_returned>>
    /\ UNCHANGED composer_vars

\* Time passes between two steps.
PX_time_passes ==
    /\ now < MaxTime
    /\ now' = now + 1
    /\ UNCHANGED <<rate_file, cache_file, issued, tracked, clears, px_pc,
                   px_loaded, px_response, px_attempts, px_sleeps, px_download,
                   px_returned>>
    /\ UNCHANGED composer_vars

\* One BRollFetcher: any sequence of search_and_download and clear_cache.
NextPexels ==
    \/ \E f \in OneFetcher : PX_search_and_download(f)
    \/ \E f \in OneFetcher : PX_rate_limit_check(f)
    \/ \E f \in OneFetcher : PX_search_request(f)
    \/ \E f \in OneFetcher : PX_track_load(f)
    \/ \E f \in OneFetcher : PX_track_save(f)
    \/ \E f \in OneFetcher : PX_download_attempt(f)
    \/ \E f \in OneFetcher : PX_clear_cache(f)
    \/ PX_time_passes

SpecPexels == Init /\ [][NextPexels]_vars

\* Two BRollFetcher instances on one cache directory, their steps
\* interleaved.
NextPexelsShared ==
    \/ \E f \in Fetchers : PX_search_and_download(f)
    \/ \E f \in Fetchers : PX_rate_limit_check(f)
    \/ \E f \in Fetchers : PX_search_request(f)
    \/ \E f \in Fetchers : PX_track_load(f)
    \/ \E f \in Fetchers : PX_track_save(f)
    \/ \E f \in Fetchers : PX_download_attempt(f)
    \/ \E f \in Fetchers : PX_clear_cache(f)
    \/ PX_time_passes

SpecPexelsShared == Init /\ [][NextPexelsShared]_vars

\* ================================================================ claims
TEStates == {"te_segments", "te_filters"}
VCStates == {"vc_raised", "vc_validated", "vc_built"}

Min(a, b) == IF a <= b THEN a ELSE b

\* Clip windows are pairwise disjoint as half-open intervals [start, end).
NonOverlapping(clips) ==
    \A i \in 1..Len(clips), j \in 1..Len(clips) :
        i < j => \/ clips[i].end_time <= clips[j].start_time
                 \/ clips[j].end_time <= clips[i].start_time

WithinDuration(clips, D) ==
    \A i \in 1..Len(clips) : 0 <= clips[i].start_time /\ clips[i].end_time <= D

ValidClipList(clips, D) == NonOverlapping(clips) /\ WithinDuration(clips, D)

\* Some clip starts at or before the end of the clip preceding it in start order.
OverlapInStartOrder(clips) ==
    LET sorted == SortByStart(clips)
    IN  \E i \in 2..Len(sorted) : sorted[i].start_time <= sorted[i - 1].end_time

\* The call was refused: an exception was raised or validate reported errors.
Rejected == outcome \notin {"pending", "returned"} \/ errors # <<>>

\* Number of B-roll segments among the first i segments.
BrollCountUpTo(segs, i) == Cardinality({j \in 1..i : segs[j].type = "broll"})

IsXfade(n) == n.op = "xfade"
IsOverlay(n) == n.op = "overlay"
XfadeNodes(chain) == SelectSeq(chain, IsXfade)
OverlayNodes(chain) == SelectSeq(chain, IsOverlay)

\* The terms of the volume expression of the audio chain.
DuckingTerms(chain) == IF chain = <<>> THEN <<>> ELSE chain[1].terms

\* The time-window predicate (enable=) of an overlay node at time t.
OverlayVisible(node, t) == between(t, node.enable_start, node.enable_end)

\* C1: for a valid clip list (end > start, pairwise non-overlapping, inside
\* [0, D]) the segment durations sum to D and the windows obtained by laying
\* the segments end to end from 0 are the segments' own: every duration is
\* positive, an avatar segment's (start, end) is its window, the k-th B-roll
\* segment's window is the k-th clip's interval, and the last window ends at D.
C1_Coverage ==
    (pc \in TEStates /\ ValidClipList(broll_clips, main_duration)) =>
        LET n == Len(segments)
            sorted == SortByStart(broll_clips)
        IN  /\ SumDurations(segments, n) = main_duration
            /\ BrollCountUpTo(segments, n) = Len(sorted)
            /\ \A i \in 1..n :
                /\ segments[i].duration > 0
                /\ segments[i].type = "avatar" =>
                     /\ segments[i].start = SumDurations(segments, i - 1)
                     /\ segments[i].end = SumDurations(segments, i)
                /\ segments[i].type = "broll" =>
                     LET c == sorted[BrollCountUpTo(segments, i)]
                     IN  /\ c.start_time = SumDurations(segments, i - 1)
                         /\ c.end_time = SumDurations(segments, i)

C1_Witness ==
    /\ pc = "te_segments"
    /\ ValidClipList(broll_clips, main_duration)
    /\ Len(broll_clips) = 2
    /\ Len(segments) = 5
    /\ SumDurations(segments, 5) = main_duration

\* C2: a clip list with a clip starting at or before the end of the clip
\* before it in start order is rejected: no segments are returned, and the
\* composer's validation reports an error and builds no overlays.
C2_OverlapRejected ==
    (pc # "start" /\ OverlapInStartOrder(broll_clips)) =>
        /\ Rejected
        /\ segments = <<>>
        /\ video_chain = <<>>

\* C3: a clip ending after the main-video duration D is rejected, and the
\* segment durations never total more than D.
C3_PastEndRejected ==
    /\ (pc # "start" /\ ~WithinDuration(broll_clips, main_duration)) =>
            Rejected /\ segments = <<>> /\ video_chain = <<>>
    /\ pc \in TEStates => SumDurations(segments, Len(segments)) <= main_duration

\* C4: for every segment list with at least one segment the video chain has
\* exactly one node with output label vout and the audio chain exactly one
\* with output label aout.
C4_OneOutputEach ==
    (pc = "te_filters" /\ Len(segments) >= 1) =>
        /\ Cardinality({k \in DOMAIN video_filter : video_filter[k].out = VOUT}) = 1
        /\ Cardinality({k \in DOMAIN audio_filter : audio_filter[k].out = AOUT}) = 1

\* C5: with at least two segments, every pair of adjacent segments has a
\* blend whose offset is the summed duration of the segments before it minus
\* its transition duration (as printed), and the offsets never decrease.
C5_OffsetMonotone ==
    (pc = "te_filters" /\ Len(segments) >= 2) =>
        LET xs == XfadeNodes(video_filter)
        IN  /\ Len(xs) = Len(segments) - 1
            /\ \A i \in 1..Len(xs) :
                 xs[i].offset = Format2f(SumDurations(segments, i)
                                         - segments[i + 1].transition_duration)
            /\ \A i \in 1..(Len(xs) - 1) : xs[i].offset <= xs[i + 1].offset

C5_Witness ==
    /\ pc = "te_filters"
    /\ Len(XfadeNodes(video_filter)) >= 3
    /\ XfadeNodes(video_filter)[1].offset < XfadeNodes(video_filter)[3].offset

\* C6: a full-frame clip (s, e) is trimmed to, and visible during, the window
\* (s, min(e, s + max_broll_duration)), whose length is max_broll_duration
\* when e - s exceeds it and e - s otherwise; a PIP clip's window is (s, e).
C6_EffectiveWindow ==
    pc = "vc_built" =>
        LET ov == OverlayNodes(video_chain)
        IN  /\ Len(ov) = Len(broll_clips)
            /\ \A k \in 1..Len(ov) :
                 LET s == broll_clips[k].start_time
                     e == broll_clips[k].end_time
                 IN  /\ ov[k].enable_start = s
                     /\ broll_clips[k].type = "pip" => ov[k].enable_end = e
                     /\ broll_clips[k].type = "fullframe" =>
                          /\ ov[k].enable_end = Min(e, s + max_broll_duration)
                          /\ ov[k].broll.trim = ov[k].enable_end - s
                          /\ ov[k].broll.setpts = s
                          /\ ov[k].broll.trim =
                               (IF e - s > max_broll_duration
                                THEN max_broll_duration ELSE e - s)

C6_Witness ==
    /\ pc = "vc_built"
    /\ \E k \in 1..Len(broll_clips) :
         /\ broll_clips[k].type = "fullframe"
         /\ broll_clips[k].end_time - broll_clips[k].start_time > max_broll_duration
         /\ OverlayNodes(video_chain)[k].broll.trim = max_broll_duration
    /\ \E k \in 1..Len(broll_clips) : broll_clips[k].type = "pip"

\* C7: the ducking terms of the gain expression match the supplementary
\* overlays of the video chain one to one, each with the start and end of
\* that overlay's window.
C7_DuckingMatchesOverlays ==
    pc = "vc_built" =>
        LET ov == OverlayNodes(video_chain)
            terms == DuckingTerms(audio_chain)
        IN  /\ Len(terms) = Len(ov)
            /\ \A k \in 1..Len(ov) :
                 /\ terms[k].start = ov[k].enable_start
                 /\ terms[k].end = ov[k].enable_end

\* C8: for pairwise non-overlapping ducking intervals [start, end) the gain
\* is the ducking value at every t strictly inside an interval and 1.0 at
\* every t outside all of them.
C8_DuckingGain ==
    (pc = "vc_built" /\ NonOverlapping(broll_clips)) =>
        LET terms == DuckingTerms(audio_chain)
        IN  \A t \in ProbeTimes :
              /\ (\E k \in 1..Len(terms) : terms[k].start < t /\ t < terms[k].end)
                    => GainIs(terms, t, ducking_volume)
              /\ (\A k \in 1..Len(terms) : ~(terms[k].start <= t /\ t < terms[k].end))
                    => GainIs(terms, t, 100)

\* C9: a PIP overlay for the clip (s, e) is visible at t exactly when
\* s <= t < e.
C9_PipVisibility ==
    pc = "vc_built" =>
        \A k \in 1..Len(broll_clips) :
            broll_clips[k].type = "pip" =>
                \A t \in ProbeTimes :
                    OverlayVisible(OverlayNodes(video_chain)[k], t)
                        <=> (broll_clips[k].start_time <= t /\ t < broll_clips[k].end_time)

\* The PIP rectangle of a pip overlay node in a frame of the chain's size.
PipX(node) == EvalPos(node.x, video_chain[1].width)
PipY(node) == EvalPos(node.y, video_chain[1].height)
PipNodes == SelectSeq(video_chain, LAMBDA n : n.op = "overlay" /\ n.kind = "pip")

\* C10 (as stated): for every output resolution the PIP rectangle keeps the
\* padding on all four sides.
C10_PipInsideFrame ==
    pc = "vc_built" =>
        \A k \in 1..Len(PipNodes) :
            LET n == PipNodes[k]
            IN  /\ pip_padding <= PipX(n)
                /\ PipX(n) + n.broll.scale_w <= video_width - pip_padding
                /\ pip_padding <= PipY(n)
                /\ PipY(n) + n.broll.scale_h <= video_height - pip_padding

\* C10 (amended): for every output resolution the PIP rectangle's right and
\* bottom edges lie exactly the padding inside the frame; the left and top
\* margins are at least the padding exactly when the frame is at least
\* pip size + 2 * padding wide and high.
C10_PipBounds ==
    pc = "vc_built" =>
        \A k \in 1..Len(PipNodes) :
            LET n == PipNodes[k]
            IN  /\ n.broll.scale_w = pip_width /\ n.broll.scale_h = pip_height
                /\ PipX(n) + n.broll.scale_w = video_width - pip_padding
                /\ PipY(n) + n.broll.scale_h = video_height - pip_padding
                /\ pip_padding <= PipX(n) <=> video_width >= pip_width + 2 * pip_padding
                /\ pip_padding <= PipY(n) <=> video_height >= pip_height + 2 * pip_padding

C10_Witness ==
    /\ pc = "vc_built"
    /\ Len(PipNodes) >= 1
    /\ video_width < pip_width + 2 * pip_padding
    /\ PipX(PipNodes[1]) < pip_padding

\* Positions (1-based) of the nodes of a chain with the given op.
NodesOf(chain, op) == {k \in DOMAIN chain : chain[k].op = op}

C13_FirstTransitionNone ==
    (pc \in TEStates /\ segments # <<>>) =>
        /\ segments[1].transition_in = "None"
        /\ \A i \in 2..Len(segments) : segments[i].transition_in # "None"

\* C14: no two consecutive segments have the same type.
C14_Alternating ==
    pc \in TEStates =>
        \A i \in 1..(Len(segments) - 1) : segments[i].type # segments[i + 1].type

\* C15: every adjacent pair has an audio cross-fade exactly when it has a
\* video blend, with the same duration, and the audio cross-fade begins at
\* the video blend's offset (to the two decimals the offset is printed with).
C15_AudioVideoAligned ==
    (pc = "te_filters" /\ Len(segments) >= 2) =>
        LET xs == XfadeNodes(video_filter)
            as == SelectSeq(audio_filter, LAMBDA n : n.op = "acrossfade")
        IN  /\ Len(xs) = Len(as)
            /\ \A i \in 1..Len(xs) :
                 /\ xs[i].ins[2] = <<"v", i>> /\ as[i].ins[2] = <<"in:a", i>>
                 /\ xs[i].duration = as[i].duration
                 /\ xs[i].offset = Format2f(AcrossfadeStart(segments, i))

\* The exception was raised (the call has ended without a result).
Failed == outcome \notin {"pending", "returned"}

\* The set of the parts of the raised exception's message.
MessageParts == {message[i] : i \in 1..Len(message)}

\* C16: when validate returns a non-empty error list, process raises
\* CompositionError "Validation failed" whose message carries every collected
\* error, the engine is never started and nothing is written to the output
\* location.
C16_ValidationFailure ==
    errors # <<>> =>
        /\ pc = "vc_raised"
        /\ outcome = "CompositionError"
        /\ message[1] = "Validation failed: "
        /\ \A i \in 1..Len(errors) : errors[i] \in MessageParts
        /\ ffmpeg_runs = 0
        /\ engine_exit = "none"
        /\ output_file = "absent"
        /\ result = <<>>

C16_Witness ==
    /\ pc = "vc_raised"
    /\ input_file = "missing"
    /\ captions_file = "not_ass"
    /\ Len(errors) = 2
    /\ ffmpeg_runs = 0

\* C17: a call of process with a supplementary clip whose file is not on
\* disk ends with a validation error and the engine is never started.
C17_MissingClipRejected ==
    (pc \in {"vc_raised", "vc_returned"}
       /\ \E k \in 1..Len(broll_clips) : broll_clips[k].path \notin existing_files) =>
        /\ errors # <<>>
        /\ ffmpeg_runs = 0

\* C18: success is reported only with an output file that exists, is
\* non-empty and has the expected duration; an engine run that exits zero
\* and leaves a missing, empty or wrong-length file ends as a failure.
C18_SuccessMeansValidOutput ==
    /\ (result # <<>> /\ result[1].success) => output_file = "valid"
    /\ (engine_exit = "zero" /\ output_file # "valid") => Failed

\* C19: when the engine exits non-zero, the raised failure's message
\* contains the engine's stderr text.
C19_CarriesStderr ==
    engine_exit = "nonzero" =>
        /\ Failed
        /\ ffmpeg_stderr \in MessageParts

\* C20: a call of VideoComposer.process that ends in a failure leaves no file
\* at the output path and has no result.
C20_NoPartialOutput ==
    (pc = "vc_raised" /\ Failed) =>
        /\ output_file = "absent"
        /\ result = <<>>

\* The call has ended: process returned or raised.
Ended == pc \in {"vc_raised", "vc_returned", "te_raised", "te_returned"}

\* C21 as stated: a call that has ended started the engine exactly once when
\* validation passed and not at all otherwise.
C21_ExactlyOnceIfValid ==
    Ended => ffmpeg_runs = (IF errors = <<>> THEN 1 ELSE 0)

\* C21 amended: the engine is started at most once in a call and never
\* again after it has exited; not at all when validation fails or when a step
\* before the run raises; exactly once in every call that returns and in
\* every call that fails with the engine's non-zero exit.
C21_AtMostOnce ==
    /\ ffmpeg_runs \in {0, 1}
    /\ (ffmpeg_runs = 1) <=> (engine_exit # "none")
    /\ errors # <<>> => ffmpeg_runs = 0
    /\ outcome = "returned" => ffmpeg_runs = 1
    /\ (Ended /\ ffmpeg_runs = 0) =>
           message[1] \in {"Validation failed: ", "Video composition failed: ",
                           "Transition composition failed: "}

C21_Witness ==
    /\ pc = "vc_raised"
    /\ errors = <<>>
    /\ engine_exit = "nonzero"
    /\ ffmpeg_runs = 1

C23_CountMatchesGraph ==
    pc = "vc_returned" =>
        result[1].metadata.broll_count = Len(OverlayNodes(video_chain))

\* A label names a raw indexed input stream.
IsRawInput(label) == label[1] \in {"in:v", "in:a"}

\* C25: in the video filter graph every label is the output of exactly one
\* node, and every label a node consumes is a raw indexed input or the output
\* of an earlier node.
C25_LabelsWellFormed ==
    pc = "te_filters" =>
        /\ \A j, k \in 1..Len(video_filter) :
               j < k => video_filter[j].out # video_filter[k].out
        /\ \A k \in 1..Len(video_filter) :
               \A p \in 1..Len(video_filter[k].ins) :
                   LET label == video_filter[k].ins[p]
                   IN  \/ IsRawInput(label)
                       \/ \E j \in 1..(k - 1) : video_filter[j].out = label

RECURSIVE EarlierBlends(_, _)
\* Sum of the durations of the blends into segments 1..i-1 (0-based).
EarlierBlends(segs, i) ==
    IF i <= 1 THEN 0
    ELSE EarlierBlends(segs, i - 1)
         + (IF segs[i].transition_in # "None" THEN segs[i].transition_duration ELSE 0)

\* L(i): length of the stream accumulated before the blend into segment i.
AccumulatedVideo(segs, i) == SumDurations(segs, i) - EarlierBlends(segs, i)

\* C26: for every blend (into segment i >= 1, 0-based) the window
\* [offset, offset + transition_duration] lies within [0, L(i)].
C26_BlendInsideStream ==
    pc = "te_filters" =>
        \A i \in 1..(Len(segments) - 1) :
            segments[i + 1].transition_in # "None" =>
                /\ XfadeOffset(segments, i) >= 0
                /\ XfadeOffset(segments, i) + segments[i + 1].transition_duration
                       <= AccumulatedVideo(segments, i)

\* C30: for every supplementary overlay, PIP or full-frame, the fade-out
\* starts no earlier than the end of the fade-in (fade-in start plus
\* fade_duration), both taken on the clip's own timeline.
C30_FadesDoNotOverlap ==
    pc = "vc_built" =>
        \A k \in 1..Len(OverlayNodes(video_chain)) :
            LET b == OverlayNodes(video_chain)[k].broll
            IN  b.fade_out_start >= b.fade_in_start + b.fade_d

\* Number of search requests sent within the window that ends now.
IssuedInWindow ==
    Cardinality({i \in 1..Len(issued) : issued[i] > now - RATE_WINDOW})

\* C24: at most RATE_LIMIT search requests are sent within any window of
\* RATE_WINDOW, across any sequence of search_and_download and clear_cache
\* calls on one fetcher.
C24_RateLimitRespected == IssuedInWindow <= RATE_LIMIT

\* C27: after a search_and_download whose download failed (all attempts
\* used up, result None) a cache lookup for the query is a miss.
C27_FailedDownloadNotCached ==
    \A f \in OneFetcher :
        (px_pc[f] = "idle" /\ px_download[f] = "raised" /\ px_returned[f] = "None")
            => ~CacheHit(cache_file)

\* C28: with two fetchers on one cache directory, while every request is
\* still inside the window and the cache was never cleared, the stored
\* request list has one entry per completed _track_request call.
C28_EveryRequestRecorded ==
    (clears = 0 /\ now < RATE_WINDOW) => Len(rate_file) = tracked

\* Number of failed attempts in a log of attempt outcomes.
FailedAttempts(log) == Cardinality({i \in 1..Len(log) : log[i] = "failed"})

====
